---- MODULE Spec2Model ----
(***************************************************************************)
(* Model of the IMF RAG pipeline (src/imf_rag_system.py) and of the two    *)
(* scripts that drive it (main in src/imf_rag_system.py, simple_demo in    *)
(* src/simple_example.py).                                                 *)
(*                                                                         *)
(* The pipeline object holds two references, self.vectorstore and          *)
(* self.qa_chain.  The vector index itself lives in the Chroma collection  *)
(* at persist_directory; every Chroma object opened on that directory is a *)
(* handle on the same collection.  The collaborators (PDF loader, text     *)
(* splitter, embedding model, Chroma, RetrievalQA, the language model) are *)
(* modelled at the call sites of the source by what the calls do: which    *)
(* references are assigned, what is written to persist_directory, what is  *)
(* searched, how often the language model is invoked, and where an         *)
(* exception leaves the method.                                            *)
(***************************************************************************)
EXTENDS Integers, Sequences, FiniteSets, TLC

\* ---- bounds of the model ----
MaxChunks == 4       \* the document splits into 0..MaxChunks chunks
BatchSize == 1       \* chunks per embedding/upsert batch of from_documents
MaxStore == 8        \* cap on the number of entries in the collection
MaxRuns == 2         \* process runs (constructions of IMF_RAG_System)
MaxQuestions == 2    \* distinct questions a caller may ask
MaxAnswers == 2      \* distinct texts the language model may return

\* ---- program constants ----
K == 3                  \* search_kwargs={"k": 3}
NumDemoQuestions == 3   \* the three questions of simple_demo

Drivers == {"direct", "main", "simple_demo"}
Questions == 1..MaxQuestions
Answers == 1..MaxAnswers

VARIABLES
    pdfExists,     \* the PDF at pdf_path exists (environment, fixed)
    chunks,        \* what loader + splitter yield for the document: <<1..n>>
    dirExists,     \* os.path.exists(persist_directory)
    store,         \* entries of the collection at persist_directory, insertion order
    vectorstore,   \* self.vectorstore: "None" or "Chroma"
    qa_chain,      \* self.qa_chain: "None" or "RetrievalQA"
    driver,        \* which script drives this run
    pc,            \* position of the driving script
    qIndex,        \* simple_demo: index of the next question
    run,           \* number of the current process run
    lastOp,        \* the method the last step called
    lastOutcome,   \* "ok" or the error the call raised
    llmCalls,      \* language-model invocations made by the last call
    searches,      \* vector-index searches made by the last call
    prompt,        \* the prompt the last call handed to the language model
    result         \* the value the last call returned to its caller

disk == <<dirExists, store>>
refs == <<vectorstore, qa_chain>>
env == <<pdfExists, chunks>>
script == <<driver, pc, qIndex, run>>
call == <<lastOp, lastOutcome, llmCalls, searches, prompt, result>>
vars == <<pdfExists, chunks, dirExists, store, vectorstore, qa_chain, driver, pc,
          qIndex, run, lastOp, lastOutcome, llmCalls, searches, prompt, result>>

NoPrompt == [context |-> <<>>, question |-> 0]
NoResult == [answer |-> 0, sources |-> <<>>]

\* A call that is not a query leaves nothing in the query's records.
NoQueryRecord ==
    /\ llmCalls' = 0
    /\ searches' = 0
    /\ prompt' = NoPrompt
    /\ result' = NoResult

Iota(n) == [i \in 1..n |-> i]

Min(a, b) == IF a <= b THEN a ELSE b

\* ---- IMF_RAG_System.__init__ ----
Construct ==
    /\ vectorstore' = "None"
    /\ qa_chain' = "None"
    /\ lastOp' = "__init__"
    /\ lastOutcome' = "ok"
    /\ NoQueryRecord

\* ---- Chroma.from_documents: batches ----
NumBatches(docs) == (Len(docs) + BatchSize - 1) \div BatchSize

\* The chunks of the batches before batch b.
BatchesBefore(docs, b) == SubSeq(docs, 1, Min(Len(docs), (b - 1) * BatchSize))

\* ---- IMF_RAG_System.load_and_process_pdf ----
\* embedInitFails: HuggingFaceEmbeddings(...) raises; failBatch: the batch on
\* which the embedding provider raises (0: none).
\* Variant: the method clears self.vectorstore before rebuilding, so a failed
\* call leaves it None.
load_and_process_pdf_reset(embedInitFails, failBatch) ==
    /\ lastOp' = "load_and_process_pdf"
    /\ NoQueryRecord
    /\ qa_chain' = qa_chain
    /\ IF ~pdfExists
         THEN /\ lastOutcome' = "DocumentNotFound"
              /\ vectorstore' = "None"
              /\ UNCHANGED disk
         ELSE IF embedInitFails
         THEN /\ lastOutcome' = "EmbeddingFailure"
              /\ vectorstore' = "None"
              /\ UNCHANGED disk
         ELSE /\ dirExists' = TRUE
              /\ IF failBatch \in 1..NumBatches(chunks)
                   THEN /\ store' = store \o BatchesBefore(chunks, failBatch)
                        /\ lastOutcome' = "EmbeddingFailure"
                        /\ vectorstore' = "None"
                   ELSE /\ store' = store \o chunks
                        /\ lastOutcome' = "ok"
                        /\ vectorstore' = "Chroma"

load_and_process_pdf(embedInitFails, failBatch) ==
    /\ lastOp' = "load_and_process_pdf"
    /\ NoQueryRecord
    /\ qa_chain' = qa_chain
    /\ IF ~pdfExists
         THEN \* PyPDFLoader(...).load() raises
              /\ lastOutcome' = "DocumentNotFound"
              /\ UNCHANGED <<vectorstore, dirExists, store>>
         ELSE IF embedInitFails
         THEN /\ lastOutcome' = "EmbeddingFailure"
              /\ UNCHANGED <<vectorstore, dirExists, store>>
         ELSE \* Chroma.from_documents opens (creating it if absent) the
              \* collection at persist_directory, then embeds and adds the
              \* chunks batch by batch under fresh ids
              /\ dirExists' = TRUE
              /\ IF failBatch \in 1..NumBatches(chunks)
                   THEN /\ store' = store \o BatchesBefore(chunks, failBatch)
                        /\ lastOutcome' = "EmbeddingFailure"
                        /\ vectorstore' = vectorstore
                   ELSE /\ store' = store \o chunks
                        /\ lastOutcome' = "ok"
                        /\ vectorstore' = "Chroma"

\* ---- IMF_RAG_System.load_existing_vectorstore ----
load_existing_vectorstore(embedInitFails) ==
    /\ lastOp' = "load_existing_vectorstore"
    /\ NoQueryRecord
    /\ qa_chain' = qa_chain
    /\ store' = store
    /\ IF embedInitFails
         THEN /\ lastOutcome' = "EmbeddingFailure"
              /\ UNCHANGED <<vectorstore, dirExists>>
         ELSE \* Chroma(persist_directory=...) opens the collection, creating
              \* an empty one when the directory holds none
              /\ dirExists' = TRUE
              /\ vectorstore' = "Chroma"
              /\ lastOutcome' = "ok"

\* ---- IMF_RAG_System.setup_qa_chain ----
\* Variant: the chain is configured without touching self.vectorstore.
setup_qa_chain_unguarded ==
    /\ lastOp' = "setup_qa_chain"
    /\ NoQueryRecord
    /\ UNCHANGED <<vectorstore, dirExists, store>>
    /\ qa_chain' = "RetrievalQA"
    /\ lastOutcome' = "ok"

setup_qa_chain ==
    /\ lastOp' = "setup_qa_chain"
    /\ NoQueryRecord
    /\ UNCHANGED <<vectorstore, dirExists, store>>
    /\ IF vectorstore = "None"
         THEN \* self.vectorstore.as_retriever raises AttributeError while the
              \* arguments of from_chain_type are evaluated
              /\ lastOutcome' = "AttributeError"
              /\ qa_chain' = qa_chain
         ELSE /\ qa_chain' = "RetrievalQA"
              /\ lastOutcome' = "ok"

\* ---- retriever: similarity search over the collection ----
\* Distance of a chunk to a question: stands for the embedding distance.
Dist(q, c) == IF 2 * c >= 3 * q THEN 2 * c - 3 * q ELSE 3 * q - 2 * c

\* Position i precedes position j in relevance order: nearer first, ties in
\* insertion order.
Before(entries, q, i, j) ==
    \/ Dist(q, entries[i]) < Dist(q, entries[j])
    \/ Dist(q, entries[i]) = Dist(q, entries[j]) /\ i < j

Best(entries, q, S) == CHOOSE i \in S : \A j \in S \ {i} : Before(entries, q, i, j)

RECURSIVE Ranked(_, _, _, _)
Ranked(entries, q, S, n) ==
    IF n = 0 \/ S = {} THEN <<>>
    ELSE LET b == Best(entries, q, S)
         IN <<entries[b]>> \o Ranked(entries, q, S \ {b}, n - 1)

similarity_search(entries, q, k) == Ranked(entries, q, DOMAIN entries, k)

\* ---- RetrievalQA.invoke, as configured by setup_qa_chain ----
\* retriever with k = 3, "stuff" chain, return_source_documents = True: the
\* retrieved documents are stuffed into the prompt in retrieved order and
\* returned under source_documents; the language model is called once.
\* Variant: a failed language-model call is retried once.
invoke_retrying(q, embedFails, llmFails, answer) ==
    IF embedFails
      THEN [outcome |-> "EmbeddingFailure", searches |-> 0, llmCalls |-> 0,
            prompt |-> NoPrompt, result |-> 0, source_documents |-> <<>>]
      ELSE LET docs == similarity_search(store, q, K)
               p == [context |-> docs, question |-> q]
           IN IF llmFails
                THEN [outcome |-> "UpstreamError", searches |-> 1, llmCalls |-> 2,
                      prompt |-> p, result |-> 0, source_documents |-> <<>>]
                ELSE [outcome |-> "ok", searches |-> 1, llmCalls |-> 1,
                      prompt |-> p, result |-> answer, source_documents |-> docs]

invoke(q, embedFails, llmFails, answer) ==
    IF embedFails
      THEN [outcome |-> "EmbeddingFailure", searches |-> 0, llmCalls |-> 0,
            prompt |-> NoPrompt, result |-> 0, source_documents |-> <<>>]
      ELSE LET docs == similarity_search(store, q, K)
               p == [context |-> docs, question |-> q]
           IN IF llmFails
                THEN [outcome |-> "UpstreamError", searches |-> 1, llmCalls |-> 1,
                      prompt |-> p, result |-> 0, source_documents |-> <<>>]
                ELSE [outcome |-> "ok", searches |-> 1, llmCalls |-> 1,
                      prompt |-> p, result |-> answer, source_documents |-> docs]

\* ---- IMF_RAG_System.query: the value it returns ----
\* Variant: only the top-ranked source is returned.
query_return_first(r) ==
    [answer |-> r.result,
     sources |-> IF r.source_documents = <<>> THEN <<>>
                 ELSE <<Head(r.source_documents)>>]

query_return(r) == [answer |-> r.result, sources |-> r.source_documents]

\* ---- IMF_RAG_System.query ----
\* Variant: no guard; the chain is configured on demand and invoked.
query_lazy_setup(q, embedFails, llmFails, answer) ==
    LET r == invoke(q, embedFails, llmFails, answer)
    IN /\ lastOp' = "query"
       /\ UNCHANGED <<vectorstore, dirExists, store>>
       /\ qa_chain' = "RetrievalQA"
       /\ lastOutcome' = r.outcome
       /\ llmCalls' = r.llmCalls
       /\ searches' = r.searches
       /\ prompt' = r.prompt
       /\ result' = IF r.outcome = "ok" THEN query_return(r) ELSE NoResult

\* Variant: a successful query adds the question to the collection.
query_caching(q, embedFails, llmFails, answer) ==
    /\ lastOp' = "query"
    /\ UNCHANGED <<vectorstore, qa_chain, dirExists>>
    /\ IF qa_chain = "None"
         THEN /\ lastOutcome' = "NotConfigured"
              /\ store' = store
              /\ NoQueryRecord
         ELSE LET r == invoke(q, embedFails, llmFails, answer)
              IN /\ lastOutcome' = r.outcome
                 /\ llmCalls' = r.llmCalls
                 /\ searches' = r.searches
                 /\ prompt' = r.prompt
                 /\ store' = IF r.outcome = "ok" /\ Len(store) < MaxStore
                               THEN Append(store, q) ELSE store
                 /\ result' = IF r.outcome = "ok" THEN query_return(r) ELSE NoResult

query(q, embedFails, llmFails, answer) ==
    /\ lastOp' = "query"
    /\ UNCHANGED <<vectorstore, qa_chain, dirExists, store>>
    /\ IF qa_chain = "None"
         THEN \* raise Exception("QA chain not set up. ...")
              /\ lastOutcome' = "NotConfigured"
              /\ NoQueryRecord
         ELSE LET r == invoke(q, embedFails, llmFails, answer)
              IN /\ lastOutcome' = r.outcome
                 /\ llmCalls' = r.llmCalls
                 /\ searches' = r.searches
                 /\ prompt' = r.prompt
                 /\ result' = IF r.outcome = "ok" THEN query_return(r) ELSE NoResult

\* load_and_process_pdf is run only while the collection stays within MaxStore
CanBuild == Len(store) + Len(chunks) <= MaxStore

\* ---- a caller using the class directly, in any order ----
CallBuild ==
    /\ driver = "direct"
    /\ CanBuild
    /\ \E e \in BOOLEAN, f \in 0..NumBatches(chunks) : load_and_process_pdf(e, f)
    /\ UNCHANGED <<env, script>>

CallLoad ==
    /\ driver = "direct"
    /\ \E e \in BOOLEAN : load_existing_vectorstore(e)
    /\ UNCHANGED <<env, script>>

CallSetup ==
    /\ driver = "direct"
    /\ setup_qa_chain
    /\ UNCHANGED <<env, script>>

CallQuery ==
    /\ driver = "direct"
    /\ \E q \in Questions, e \in BOOLEAN, l \in BOOLEAN, a \in Answers : query(q, e, l, a)
    /\ UNCHANGED <<env, script>>

\* ---- load or create the vector database (main and simple_demo) ----
OpenIndex ==
    IF dirExists
      THEN \E e \in BOOLEAN : load_existing_vectorstore(e)
      ELSE \E e \in BOOLEAN, f \in 0..NumBatches(chunks) : load_and_process_pdf(e, f)

\* An exception that no handler catches ends the script.
Next_pc(ok, after) == IF ok THEN after ELSE "crashed"

\* ---- main ----
MainOpenIndex ==
    /\ driver = "main" /\ pc = "open"
    /\ OpenIndex
    /\ pc' = Next_pc(lastOutcome' = "ok", "setup")
    /\ UNCHANGED <<env, driver, qIndex, run>>

MainSetup ==
    /\ driver = "main" /\ pc = "setup"
    /\ setup_qa_chain
    /\ pc' = Next_pc(lastOutcome' = "ok", "loop")
    /\ UNCHANGED <<env, driver, qIndex, run>>

\* One turn of the interactive loop with a question: the try/except around
\* rag.query catches every Exception and the loop goes on.
MainAsk ==
    /\ driver = "main" /\ pc = "loop"
    /\ \E q \in Questions, e \in BOOLEAN, l \in BOOLEAN, a \in Answers : query(q, e, l, a)
    /\ pc' = "loop"
    /\ UNCHANGED <<env, driver, qIndex, run>>

\* One turn of the interactive loop with 'quit', 'exit' or 'q'.
MainQuit ==
    /\ driver = "main" /\ pc = "loop"
    /\ pc' = "done"
    /\ lastOp' = "quit"
    /\ lastOutcome' = "ok"
    /\ NoQueryRecord
    /\ UNCHANGED <<env, disk, refs, driver, qIndex, run>>

\* ---- simple_demo ----
\* The script returns before constructing anything when the PDF is missing.
DemoNoPdf ==
    /\ driver = "simple_demo" /\ pc = "open"
    /\ ~pdfExists
    /\ pc' = "done"
    /\ lastOp' = "return"
    /\ lastOutcome' = "ok"
    /\ NoQueryRecord
    /\ UNCHANGED <<env, disk, refs, driver, qIndex, run>>

DemoOpenIndex ==
    /\ driver = "simple_demo" /\ pc = "open"
    /\ pdfExists
    /\ OpenIndex
    /\ pc' = Next_pc(lastOutcome' = "ok", "setup")
    /\ UNCHANGED <<env, driver, qIndex, run>>

DemoSetup ==
    /\ driver = "simple_demo" /\ pc = "setup"
    /\ setup_qa_chain
    /\ pc' = Next_pc(lastOutcome' = "ok", "loop")
    /\ UNCHANGED <<env, driver, qIndex, run>>

\* One iteration of the loop over the example questions: rag.query is called
\* with no handler around it.
DemoAsk ==
    /\ driver = "simple_demo" /\ pc = "loop"
    /\ qIndex <= NumDemoQuestions
    /\ \E q \in Questions, e \in BOOLEAN, l \in BOOLEAN, a \in Answers : query(q, e, l, a)
    /\ qIndex' = IF lastOutcome' = "ok" THEN qIndex + 1 ELSE qIndex
    /\ pc' = IF lastOutcome' # "ok" THEN "crashed"
             ELSE IF qIndex = NumDemoQuestions THEN "done" ELSE "loop"
    /\ UNCHANGED <<env, driver, run>>

\* ---- a new run of a script: a new process, the same persist_directory ----
Restart ==
    /\ run < MaxRuns
    /\ run' = run + 1
    /\ driver' \in Drivers
    /\ pc' = "open"
    /\ qIndex' = 1
    /\ Construct
    /\ UNCHANGED <<env, disk>>

Init ==
    /\ pdfExists \in BOOLEAN
    /\ chunks \in {Iota(n) : n \in 0..MaxChunks}
    /\ dirExists = FALSE
    /\ store = <<>>
    /\ vectorstore = "None"
    /\ qa_chain = "None"
    /\ driver \in Drivers
    /\ pc = "open"
    /\ qIndex = 1
    /\ run = 1
    /\ lastOp = "__init__"
    /\ lastOutcome = "ok"
    /\ llmCalls = 0
    /\ searches = 0
    /\ prompt = NoPrompt
    /\ result = NoResult

Next ==
    \/ CallBuild
    \/ CallLoad
    \/ CallSetup
    \/ CallQuery
    \/ MainOpenIndex
    \/ MainSetup
    \/ MainAsk
    \/ MainQuit
    \/ DemoNoPdf
    \/ DemoOpenIndex
    \/ DemoSetup
    \/ DemoAsk
    \/ Restart

Spec == Init /\ [][Next]_vars

\* ======================= properties =======================

Build == "load_and_process_pdf"
Load == "load_existing_vectorstore"

\* C1: a build that fails on an embedding batch is fail-fast: the call does
\* not set self.vectorstore and leaves persist_directory as it was before the
\* call (no directory created, no entry written).
C1_FailFastBuild ==
    [][(lastOp' = Build /\ lastOutcome' = "EmbeddingFailure")
        => (vectorstore' = vectorstore /\ dirExists' = dirExists /\ store' = store)]_vars

\* C2: a pipeline is constructed Unindexed, becomes Ready only in a step that
\* is a successful build or a successful load, and once Ready stays Ready for
\* as long as the pipeline object lives.
C2_ReadyOnlyByBuildOrLoad ==
    [][/\ lastOp' = "__init__" => vectorstore' = "None"
       /\ run' = run =>
            /\ vectorstore # "None" => vectorstore' # "None"
            /\ (vectorstore = "None" /\ vectorstore' # "None")
                 => (lastOp' \in {Build, Load} /\ lastOutcome' = "ok")]_vars

\* C2 witness: a pipeline that is Ready after a rebuild failed on a batch.
C2_Witness ==
    /\ vectorstore = "Chroma"
    /\ lastOp = Build
    /\ lastOutcome = "EmbeddingFailure"

\* C3: a query made while the QA chain is not configured raises before any
\* search or language-model call and leaves vectorstore, qa_chain and the
\* index as they were.
C3_QueryNotConfigured ==
    [][(lastOp' = "query" /\ qa_chain = "None")
        => /\ lastOutcome' = "NotConfigured"
           /\ searches' = 0 /\ llmCalls' = 0
           /\ prompt' = NoPrompt /\ result' = NoResult
           /\ UNCHANGED <<vectorstore, qa_chain, dirExists, store>>]_vars

\* C3 witness: the illegal query was made on a pipeline that has a non-empty
\* index but no QA chain.
C3_Witness ==
    /\ lastOp = "query"
    /\ lastOutcome = "NotConfigured"
    /\ vectorstore = "Chroma"
    /\ store # <<>>

\* C4: the sources a successful query returns are the retrieved chunks that
\* were placed in the prompt, which are the top K of the index for the
\* question: same elements, same order, same length.
C4_SourcesAreRetrieved ==
    (lastOp = "query" /\ lastOutcome = "ok")
      => /\ result.sources = prompt.context
         /\ prompt.context = similarity_search(store, prompt.question, K)
         /\ Len(result.sources) = Min(K, Len(store))

\* C4 witness: a successful query over the index of one build that returned
\* K sources out of more than K chunks, in an order that is not the insertion
\* order.
C4_Witness ==
    /\ lastOp = "query"
    /\ lastOutcome = "ok"
    /\ store = chunks
    /\ Len(store) > K
    /\ Len(result.sources) = K
    /\ result.sources # SubSeq(store, 1, K)

\* C5 (as claimed): every call to query, successful or failed, invokes the
\* language model exactly once.
C5_ExactlyOnceEveryCall == lastOp = "query" => llmCalls = 1

\* C5 (amended): a call to query invokes the language model at most once and
\* searches the index at most once: exactly once each when the call succeeds,
\* the model once when the model call itself fails, and the model not at all
\* when the call fails before synthesis (chain not configured, or the query
\* embedding fails).
C5_AtMostOnce ==
    lastOp = "query" =>
        /\ llmCalls = (IF lastOutcome \in {"ok", "UpstreamError"} THEN 1 ELSE 0)
        /\ searches = (IF lastOutcome \in {"ok", "UpstreamError"} THEN 1 ELSE 0)

\* C5 witness: a query whose language-model call failed, after one call.
C5_Witness ==
    /\ lastOp = "query"
    /\ lastOutcome = "UpstreamError"
    /\ llmCalls = 1

\* C6: load_existing_vectorstore on a location that does not exist fails and
\* does not change self.vectorstore.
C6_LoadAbsentFails ==
    [][(lastOp' = Load /\ ~dirExists)
        => (lastOutcome' # "ok" /\ vectorstore' = vectorstore)]_vars

\* C7: after a query that raised, the surrounding script is still running.
C7_FailedQueryKeepsSession ==
    (lastOp = "query" /\ lastOutcome # "ok") => pc # "crashed"

\* C8: a successful build over the persisted index of the same document
\* leaves the same entry set: one entry per chunk.
C8_RebuildIdempotent ==
    [][(lastOp' = Build /\ lastOutcome' = "ok" /\ dirExists /\ store = chunks)
        => store' = chunks]_vars

\* C9: a query, successful or failed, leaves the index entries, the persist
\* directory, self.vectorstore and self.qa_chain unchanged.
C9_QueryReadOnly ==
    [][lastOp' = "query" => UNCHANGED <<store, dirExists, vectorstore, qa_chain>>]_vars

\* C9 witness: a successful query that searched a non-empty index through a
\* configured chain.
C9_Witness ==
    /\ lastOp = "query"
    /\ lastOutcome = "ok"
    /\ searches = 1
    /\ store # <<>>
    /\ qa_chain = "RetrievalQA"

\* C10: a configured QA chain implies an index is present; setup_qa_chain on
\* an Unindexed pipeline fails and leaves qa_chain unset; a query searches
\* only with both references set.
C10_ChainImpliesIndex ==
    /\ qa_chain # "None" => vectorstore # "None"
    /\ (lastOp = "setup_qa_chain" /\ vectorstore = "None")
         => (lastOutcome = "AttributeError" /\ qa_chain = "None")
    /\ searches > 0 => (vectorstore # "None" /\ qa_chain # "None")

\* C10 witness: setup_qa_chain was called on an Unindexed pipeline.
C10_Witness ==
    /\ lastOp = "setup_qa_chain"
    /\ lastOutcome = "AttributeError"
    /\ vectorstore = "None"
    /\ qa_chain = "None"

====
